---- MODULE Spec2Model ----
(***************************************************************************)
(* Model of the bulk HTTP client of gojek/meniscus (src/client.go).        *)
(*                                                                         *)
(* One call of BulkClient.Do is modelled together with the goroutines it   *)
(* starts: responseMux, workerManager, publishAllRequests, the fireRequests*)
(* pool and the processRequests pool.  All channels of Do are unbuffered,  *)
(* so a send and its receive are one step (a rendezvous) of the model.     *)
(* A Go select with several ready cases picks any of them: every ready     *)
(* case is an enabled action.                                              *)
(*                                                                         *)
(* Go slices are indexed 0..N-1; the model uses sequences indexed 1..N,    *)
(* index i of the model being index i-1 of the code.  A nil slice is the   *)
(* empty sequence.                                                         *)
(***************************************************************************)
EXTENDS Integers, Sequences, FiniteSets

\* Bounds of the model.
MaxRequests == 2
MaxFireWorkers == 2
MaxProcessWorkers == 2
MaxCloseCalls == 1

VARIABLES
    requests,               \* bulkRequest.requests
    responses,              \* bulkRequest.responses
    errors,                 \* bulkRequest.errors
    fireRequestsWorkers,    \* argument of Do
    processResponseWorkers, \* argument of Do
    doPc,                   \* position of the goroutine that called Do
    ret,                    \* what Do returned: [responses, errors]
    ctxErr,                 \* ctx.Err() of the batch context
    closes,                 \* number of close() calls on each channel
    muxPc,                  \* position of responseMux
    arrayOfResponses,       \* responseMux's local slice
    done,                   \* responseMux's loop counter
    delivered,              \* sends of responseMux's slice on collectResponses (history)
    mgrPc,                  \* position of workerManager
    pubPc,                  \* position of publishAllRequests
    pubIndex,               \* next index publishAllRequests will send
    firePc,                 \* position of each fireRequests worker
    fireParcel,             \* the parcel a fire worker holds
    procPc,                 \* position of each processRequests worker
    procParcel,             \* the parcel a process worker holds
    addCalls,               \* number of AddRequest calls made on the batch (history)
    bodyOpened,             \* requests for which the transport returned a response (history)
    bodyClosed,             \* per request: Close() calls on the transport's body (history)
    completedInTime,        \* requests whose transport call returned before the deadline fired (history)
    inFlightAtDeadline,     \* requests whose transport call was running when the deadline fired (history)
    published,              \* per request: sends of its parcel on requestList (history)
    transportCalls,         \* per request: calls of the transport made for it (history)
    normalized,             \* per request: parseResponse calls made for it (history)
    transportOutcome,       \* per request: what its transport call returned (history)
    unreadable,             \* requests whose response body could not be read (history)
    startedAfterStop,       \* transport calls started after stopProcessing was closed (history)
    closeAllCalls,          \* number of CloseAllResponses calls made on the batch (history)
    responseClosed          \* per index: Close() calls on the body of responses[i] (history)

vars == <<requests, responses, errors, fireRequestsWorkers, processResponseWorkers,
          doPc, ret, ctxErr, closes, muxPc, arrayOfResponses, done, delivered,
          mgrPc, pubPc, pubIndex, firePc, fireParcel, procPc, procParcel,
          addCalls, bodyOpened, bodyClosed, completedInTime, inFlightAtDeadline,
          published, transportCalls, normalized, transportOutcome, unreadable,
          startedAfterStop, closeAllCalls, responseClosed>>

orchestratorVars == <<requests, responses, errors, doPc, ret>>
inputVars == <<fireRequestsWorkers, processResponseWorkers>>
muxVars == <<muxPc, arrayOfResponses, done, delivered>>
publishVars == <<pubPc, pubIndex>>
fireVars == <<firePc, fireParcel>>
procVars == <<procPc, procParcel>>
bodyVars == <<bodyOpened, bodyClosed>>
historyVars == <<addCalls, completedInTime, inFlightAtDeadline>>
traceVars == <<published, transportCalls, normalized, transportOutcome, unreadable,
               startedAfterStop>>
callerVars == <<closeAllCalls, responseClosed>>

----------------------------------------------------------------------------
\* Values.

\* A nil *http.Response / a nil error.
NilResponse == [body |-> "nil", request |-> 0, ctx |-> "nil"]
NilError == [kind |-> "nil", cause |-> 0]

\* The package-level sentinels.
ErrNoRequests == [kind |-> "no requests provided", cause |-> 0]
ErrRequestIgnored == [kind |-> "request ignored", cause |-> 0]

\* The error a transport call returns for request id r.
TransportError(r) == [kind |-> "transport", cause |-> r]

\* The response a transport call returns for request id r: its body is still
\* on the connection and its request carries the batch context.
TransportResponse(r) == [body |-> "connection", request |-> r, ctx |-> "batch"]

\* The request of the k-th AddRequest call; WithContext attaches a context.
NewRequest(k) == [id |-> k, ctx |-> "none"]
WithContext(req, c) == [req EXCEPT !.ctx = c]

\* A nil *http.Request, and the zero roundTripParcel.
NilRequest == [id |-> 0, ctx |-> "nil"]
NoParcel == [request |-> NilRequest, response |-> NilResponse, err |-> NilError, index |-> 0]

\* The goroutines fireRequestsManager and processRequestsManager have started.
FireWorkers == DOMAIN firePc
ProcessWorkers == DOMAIN procPc
Indices == 1..Len(requests)

Channels == {"requestList", "recievedResponses", "processedResponses",
             "collectResponses", "stopProcessing"}
IsClosed(ch) == closes[ch] > 0
Close(ch) == [closes EXCEPT ![ch] = @ + 1]

\* <-stopProcessing is ready once the channel is closed; <-ctx.Done() once
\* the batch context has expired or been cancelled.
StopProcessing == IsClosed("stopProcessing")

\* A variant of responseMux's first case that waits for stopProcessing.
CtxDone_OnStop == IsClosed("stopProcessing")

CtxDone == ctxErr \in {"Canceled", "DeadlineExceeded"}

\* The loop condition of responseMux: done < len(bulkRequest.requests).
responseMuxLoop_OffByOne(d) == d < Len(requests) - 1

responseMuxLoop(d) == d < Len(requests)

----------------------------------------------------------------------------
\* The Result Ledger (RoundTrip).

updateResponseForIndex(rs, es, response, index) ==
    [responses |-> [rs EXCEPT ![index] = response],
     errors |-> [es EXCEPT ![index] = NilError]]

\* A variant of updateErrorForIndex that records the error in every slot.
updateErrorForIndex_AllSlots(rs, es, err, index) ==
    [responses |-> [i \in DOMAIN rs |-> NilResponse],
     errors |-> [i \in DOMAIN es |-> err]]

updateErrorForIndex(rs, es, err, index) ==
    [responses |-> [rs EXCEPT ![index] = NilResponse],
     errors |-> [es EXCEPT ![index] = err]]

\* Variants of addRequestIgnoredErrors: one that never fills a slot, one that
\* tests the error only.
addRequestIgnoredErrors_NoFill(rs, es) == [responses |-> rs, errors |-> es]

addRequestIgnoredErrors_ErrorOnly(rs, es) ==
    [responses |-> rs,
     errors |-> [i \in DOMAIN es |-> IF es[i] = NilError THEN ErrRequestIgnored ELSE es[i]]]

\* A variant of addRequestIgnoredErrors that tests the response only.
addRequestIgnoredErrors_Overwrite(rs, es) ==
    [responses |-> rs,
     errors |-> [i \in DOMAIN es |->
                    IF rs[i] = NilResponse THEN ErrRequestIgnored ELSE es[i]]]

addRequestIgnoredErrors(rs, es) ==
    [responses |-> rs,
     errors |-> [i \in DOMAIN es |->
                    IF rs[i] = NilResponse /\ es[i] = NilError
                    THEN ErrRequestIgnored ELSE es[i]]]

\* A variant of the merge that stores the k-th delivered parcel in slot k.
Merge_ByArrival(rs, es, parcels) ==
    [responses |-> [i \in DOMAIN rs |->
                      IF i <= Len(parcels) THEN parcels[i].response ELSE rs[i]],
     errors |-> [i \in DOMAIN es |->
                   IF i <= Len(parcels) THEN parcels[i].err ELSE es[i]]]

\* The loop of completionListener over the delivered slice, in slice order.
RECURSIVE Merge(_, _, _)
Merge(rs, es, parcels) ==
    IF parcels = <<>> THEN [responses |-> rs, errors |-> es]
    ELSE LET p == Head(parcels)
             l == IF p.err # NilError
                  THEN updateErrorForIndex(rs, es, p.err, p.index)
                  ELSE updateResponseForIndex(rs, es, p.response, p.index)
         IN Merge(l.responses, l.errors, Tail(parcels))

----------------------------------------------------------------------------
\* The Response Normalizer.

\* A variant of parseResponse that reports every transport error as
\* ErrRequestIgnored, whatever ctx.Err() is.
parseResponse_AnyError(ctxE, res, readOk) ==
    IF res.err # NilError
    THEN [NoParcel EXCEPT !.err = ErrRequestIgnored, !.index = res.index]
    ELSE IF res.response = NilResponse
    THEN [NoParcel EXCEPT !.err = [kind |-> "no response received", cause |-> 0],
                          !.index = res.index]
    ELSE IF ~readOk
    THEN [NoParcel EXCEPT !.err = [kind |-> "error while reading response body",
                                   cause |-> res.response.request],
                          !.index = res.index]
    ELSE [NoParcel EXCEPT !.response = [body |-> "memory",
                                        request |-> res.request.id,
                                        ctx |-> "background"],
                          !.index = res.index]

\* A variant of parseResponse that tests for a nil response first.
parseResponse_NilFirst(ctxE, res, readOk) ==
    IF res.response = NilResponse
    THEN [NoParcel EXCEPT !.err = [kind |-> "no response received", cause |-> 0],
                          !.index = res.index]
    ELSE IF res.err # NilError /\ (ctxE = "Canceled" \/ ctxE = "DeadlineExceeded")
    THEN [NoParcel EXCEPT !.err = ErrRequestIgnored, !.index = res.index]
    ELSE IF res.err # NilError
    THEN [NoParcel EXCEPT !.err = [kind |-> "http client error", cause |-> res.err.cause],
                          !.index = res.index]
    ELSE IF ~readOk
    THEN [NoParcel EXCEPT !.err = [kind |-> "error while reading response body",
                                   cause |-> res.response.request],
                          !.index = res.index]
    ELSE [NoParcel EXCEPT !.response = [body |-> "memory",
                                        request |-> res.request.id,
                                        ctx |-> "background"],
                          !.index = res.index]

\* A variant of parseResponse that hands the transport's response on as it is.
parseResponse_PassThrough(ctxE, res, readOk) ==
    IF res.err # NilError /\ (ctxE = "Canceled" \/ ctxE = "DeadlineExceeded")
    THEN [NoParcel EXCEPT !.err = ErrRequestIgnored, !.index = res.index]
    ELSE IF res.err # NilError
    THEN [NoParcel EXCEPT !.err = [kind |-> "http client error", cause |-> res.err.cause],
                          !.index = res.index]
    ELSE IF res.response = NilResponse
    THEN [NoParcel EXCEPT !.err = [kind |-> "no response received", cause |-> 0],
                          !.index = res.index]
    ELSE [NoParcel EXCEPT !.response = res.response, !.index = res.index]

\* parseResponse: ctxE is ctx.Err() when it is read, readOk whether
\* ioutil.ReadAll succeeds.  (The deferred Body.Close is in the action.)
parseResponse(ctxE, res, readOk) ==
    IF res.err # NilError /\ (ctxE = "Canceled" \/ ctxE = "DeadlineExceeded")
    THEN [NoParcel EXCEPT !.err = ErrRequestIgnored, !.index = res.index]
    ELSE IF res.err # NilError
    THEN [NoParcel EXCEPT !.err = [kind |-> "http client error", cause |-> res.err.cause],
                          !.index = res.index]
    ELSE IF res.response = NilResponse
    THEN [NoParcel EXCEPT !.err = [kind |-> "no response received", cause |-> 0],
                          !.index = res.index]
    ELSE IF ~readOk
    THEN [NoParcel EXCEPT !.err = [kind |-> "error while reading response body",
                                   cause |-> res.response.request],
                          !.index = res.index]
    ELSE [NoParcel EXCEPT !.response = [body |-> "memory",
                                        request |-> res.request.id,
                                        ctx |-> "background"],
                          !.index = res.index]

\* A variant of executeRequest that leaves the parcel's index at its zero value.
executeRequest_ZeroIndex(reqParcel, resp, err) ==
    [request |-> reqParcel.request, response |-> resp, err |-> err, index |-> 1]

\* executeRequest: the round-trip parcel built from the transport's answer.
executeRequest(reqParcel, resp, err) ==
    [request |-> reqParcel.request, response |-> resp, err |-> err,
     index |-> reqParcel.index]

----------------------------------------------------------------------------
\* Initial state: the batch NewBulkRequest returns, and the worker counts Do
\* will be called with.  No goroutine exists yet.

Init ==
    /\ requests = <<>>
    /\ responses = <<>>
    /\ errors = <<>>
    /\ fireRequestsWorkers \in 0..MaxFireWorkers
    /\ processResponseWorkers \in 0..MaxProcessWorkers
    /\ doPc = "call"
    /\ ret = [responses |-> <<>>, errors |-> <<>>]
    /\ ctxErr = "none"
    /\ closes = [ch \in Channels |-> 0]
    /\ muxPc = "idle"
    /\ arrayOfResponses = <<>>
    /\ done = 0
    /\ delivered = 0
    /\ mgrPc = "idle"
    /\ pubPc = "idle"
    /\ pubIndex = 1
    /\ firePc = <<>>
    /\ fireParcel = <<>>
    /\ procPc = <<>>
    /\ procParcel = <<>>
    /\ addCalls = 0
    /\ bodyOpened = {}
    /\ bodyClosed = [i \in 1..MaxRequests |-> 0]
    /\ completedInTime = {}
    /\ inFlightAtDeadline = {}
    /\ published = [i \in 1..MaxRequests |-> 0]
    /\ transportCalls = [i \in 1..MaxRequests |-> 0]
    /\ normalized = [i \in 1..MaxRequests |-> 0]
    /\ transportOutcome = [i \in 1..MaxRequests |-> "none"]
    /\ unreadable = {}
    /\ startedAfterStop = 0
    /\ closeAllCalls = 0
    /\ responseClosed = [i \in 1..MaxRequests |-> 0]

----------------------------------------------------------------------------
\* Building the batch.

\* A variant of AddRequest that puts the new request in front.
AddRequest_Prepend(rs, request) == <<request>> \o rs

\* AddRequest: r.requests = append(r.requests, request); return r.
AddRequest(rs, request) == Append(rs, request)

\* The caller's next AddRequest call on the batch, before it calls Do.
CallAddRequest ==
    /\ doPc = "call"
    /\ Len(requests) < MaxRequests
    /\ requests' = AddRequest(requests, NewRequest(addCalls + 1))
    /\ addCalls' = addCalls + 1
    /\ UNCHANGED <<responses, errors, doPc, ret, inputVars, ctxErr, closes, muxVars,
                   mgrPc, publishVars, fireVars, procVars, bodyVars, completedInTime,
                   inFlightAtDeadline, traceVars, callerVars>>

\* A variant of CloseAllResponses without the nil test.
CloseAllResponses_NoNilCheck(rs, closed) ==
    [i \in DOMAIN closed |-> IF i \in DOMAIN rs THEN closed[i] + 1 ELSE closed[i]]

\* CloseAllResponses: for every response of r.responses that is not nil,
\* response.Body.Close().  closed counts the Close calls per index.
CloseAllResponses(rs, closed) ==
    [i \in DOMAIN closed |->
        IF i \in DOMAIN rs /\ rs[i] # NilResponse THEN closed[i] + 1 ELSE closed[i]]

\* The caller calls CloseAllResponses, on a batch Do was not yet called with
\* or after Do has returned.
CallCloseAllResponses ==
    /\ doPc \in {"call", "returned"}
    /\ closeAllCalls < MaxCloseCalls
    /\ responseClosed' = CloseAllResponses(responses, responseClosed)
    /\ closeAllCalls' = closeAllCalls + 1
    /\ UNCHANGED <<orchestratorVars, inputVars, ctxErr, closes, muxVars, mgrPc,
                   publishVars, fireVars, procVars, bodyVars, historyVars, traceVars>>

----------------------------------------------------------------------------
\* The Batch Orchestrator: the goroutine that called Do.

\* A variant of DoEmpty that returns nil, nil.
DoEmpty_NoError ==
    /\ doPc = "call"
    /\ Len(requests) = 0
    /\ ret' = [responses |-> <<>>, errors |-> <<>>]
    /\ doPc' = "returned"
    /\ UNCHANGED <<requests, responses, errors, inputVars, ctxErr, closes, muxVars,
                   mgrPc, publishVars, fireVars, procVars, bodyVars, historyVars, traceVars, callerVars>>

\* Do on an empty batch: return nil, []error{ErrNoRequests}.
DoEmpty ==
    /\ doPc = "call"
    /\ Len(requests) = 0
    /\ ret' = [responses |-> <<>>, errors |-> <<ErrNoRequests>>]
    /\ doPc' = "returned"
    /\ UNCHANGED <<requests, responses, errors, inputVars, ctxErr, closes, muxVars,
                   mgrPc, publishVars, fireVars, procVars, bodyVars, historyVars, traceVars, callerVars>>

\* Do up to the call of completionListener: allocate the result slices, make
\* the channels and the batch context, attach the context to every request
\* and start responseMux and workerManager.
DoStart ==
    /\ doPc = "call"
    /\ Len(requests) # 0
    /\ responses' = [i \in Indices |-> NilResponse]
    /\ errors' = [i \in Indices |-> NilError]
    /\ requests' = [i \in Indices |-> WithContext(requests[i], "batch")]
    /\ muxPc' = IF responseMuxLoop(0) THEN "collecting" ELSE "send"
    /\ mgrPc' = "start"
    /\ doPc' = "listen"
    /\ UNCHANGED <<inputVars, ret, ctxErr, closes, arrayOfResponses, done, delivered,
                   publishVars, fireVars, procVars, bodyVars, historyVars, traceVars, callerVars>>

\* completionListener: receive responseMux's slice (its send is this step's
\* rendezvous), merge it, close collectResponses and backfill; then Do
\* evaluates the operands of its return statement.
completionListener ==
    /\ doPc = "listen"
    /\ muxPc = "send"
    /\ LET merged == Merge(responses, errors, arrayOfResponses)
           filled == addRequestIgnoredErrors(merged.responses, merged.errors)
       IN /\ responses' = filled.responses
          /\ errors' = filled.errors
          /\ ret' = [responses |-> filled.responses, errors |-> filled.errors]
    /\ closes' = Close("collectResponses")
    /\ delivered' = delivered + 1
    /\ muxPc' = "done"
    /\ doPc' = "merged"
    /\ UNCHANGED <<requests, inputVars, ctxErr, arrayOfResponses, done, mgrPc,
                   publishVars, fireVars, procVars, bodyVars, historyVars, traceVars, callerVars>>

\* A variant of DoCancel that also closes stopProcessing.
DoCancel_AlsoStops ==
    /\ doPc = "merged"
    /\ ctxErr' = IF ctxErr = "none" THEN "Canceled" ELSE ctxErr
    /\ closes' = Close("stopProcessing")
    /\ doPc' = "cancelled"
    /\ UNCHANGED <<requests, responses, errors, inputVars, ret, muxVars,
                   mgrPc, publishVars, fireVars, procVars, bodyVars, historyVars, traceVars, callerVars>>

\* The deferred cancel() of Do.
DoCancel ==
    /\ doPc = "merged"
    /\ ctxErr' = IF ctxErr = "none" THEN "Canceled" ELSE ctxErr
    /\ doPc' = "cancelled"
    /\ UNCHANGED <<requests, responses, errors, inputVars, ret, closes, muxVars,
                   mgrPc, publishVars, fireVars, procVars, bodyVars, historyVars, traceVars, callerVars>>

\* A variant of Do that returns without closing stopProcessing.
DoReturn_NoStop ==
    /\ doPc = "cancelled"
    /\ doPc' = "returned"
    /\ UNCHANGED <<requests, responses, errors, inputVars, ret, ctxErr, closes, muxVars,
                   mgrPc, publishVars, fireVars, procVars, bodyVars, historyVars, traceVars, callerVars>>

\* The deferred close(stopProcessing) of Do, after which Do has returned.
DoReturn ==
    /\ doPc = "cancelled"
    /\ closes' = Close("stopProcessing")
    /\ doPc' = "returned"
    /\ UNCHANGED <<requests, responses, errors, inputVars, ret, ctxErr, muxVars,
                   mgrPc, publishVars, fireVars, procVars, bodyVars, historyVars, traceVars, callerVars>>

\* The timer of context.WithTimeout fires.
Deadline ==
    /\ doPc \in {"listen", "merged"}
    /\ ctxErr = "none"
    /\ ctxErr' = "DeadlineExceeded"
    /\ inFlightAtDeadline' = {fireParcel[w].index : w \in {v \in FireWorkers : firePc[v] = "firing"}}
    /\ UNCHANGED <<orchestratorVars, inputVars, closes, muxVars, mgrPc, publishVars,
                   fireVars, procVars, bodyVars, addCalls, completedInTime, traceVars, callerVars>>

----------------------------------------------------------------------------
\* The Completion Multiplexer: responseMux.

\* The two break LOOP cases of responseMux's select: case <-ctx.Done(), and
\* case resParcel, isOpen := <-processedResponses with isOpen false.
MuxBreak ==
    /\ muxPc = "collecting"
    /\ CtxDone \/ IsClosed("processedResponses")
    /\ muxPc' = "send"
    /\ UNCHANGED <<orchestratorVars, inputVars, ctxErr, closes, arrayOfResponses, done, delivered,
                   mgrPc, publishVars, fireVars, procVars, bodyVars, historyVars, traceVars, callerVars>>

----------------------------------------------------------------------------
\* The Worker-Pool Manager: workerManager.

\* A variant of fireRequestsManager whose loop runs once more
\* (nWorker <= fireRequestsWorkers).
fireRequestsManager_OneMore(n) == [w \in 1..(n + 1) |-> "recv"]

\* fireRequestsManager: for nWorker := 0; nWorker < fireRequestsWorkers:
\* fireWg.Add(1); go fireRequests(...).  Each worker starts at its range loop.
fireRequestsManager(n) == [w \in 1..n |-> "recv"]

\* A variant of processRequestsManager whose loop runs once more
\* (mWorker <= processResponseWorkers).
processRequestsManager_OneMore(n) == [w \in 1..(n + 1) |-> "recv"]

\* processRequestsManager: the same loop for processRequests.
processRequestsManager(n) == [w \in 1..n |-> "recv"]

\* Start the publisher and both pools (fireRequestsManager,
\* processRequestsManager).
ManagerStart ==
    /\ mgrPc = "start"
    /\ pubPc' = "publishing"
    /\ firePc' = fireRequestsManager(fireRequestsWorkers)
    /\ fireParcel' = [w \in DOMAIN firePc' |-> NoParcel]
    /\ procPc' = processRequestsManager(processResponseWorkers)
    /\ procParcel' = [w \in DOMAIN procPc' |-> NoParcel]
    /\ mgrPc' = "waitPublish"
    /\ UNCHANGED <<orchestratorVars, inputVars, ctxErr, closes, muxVars, pubIndex,
                   bodyVars, historyVars, traceVars, callerVars>>

\* A variant of ManagerCloseRequestList without publishWg.Wait().
ManagerCloseRequestList_NoWait ==
    /\ mgrPc = "waitPublish"
    /\ closes' = Close("requestList")
    /\ mgrPc' = "waitFire"
    /\ UNCHANGED <<orchestratorVars, inputVars, ctxErr, muxVars, publishVars,
                   fireVars, procVars, bodyVars, historyVars, traceVars, callerVars>>

\* publishWg.Wait(); close(requestList)
ManagerCloseRequestList ==
    /\ mgrPc = "waitPublish"
    /\ pubPc = "done"
    /\ closes' = Close("requestList")
    /\ mgrPc' = "waitFire"
    /\ UNCHANGED <<orchestratorVars, inputVars, ctxErr, muxVars, publishVars,
                   fireVars, procVars, bodyVars, historyVars, traceVars, callerVars>>

\* A variant of ManagerCloseRecievedResponses without fireWg.Wait().
ManagerCloseRecievedResponses_NoWait ==
    /\ mgrPc = "waitFire"
    /\ closes' = Close("recievedResponses")
    /\ mgrPc' = "waitProcess"
    /\ UNCHANGED <<orchestratorVars, inputVars, ctxErr, muxVars, publishVars,
                   fireVars, procVars, bodyVars, historyVars, traceVars, callerVars>>

\* fireWg.Wait(); close(recievedResponses)
ManagerCloseRecievedResponses ==
    /\ mgrPc = "waitFire"
    /\ \A w \in FireWorkers : firePc[w] = "done"
    /\ closes' = Close("recievedResponses")
    /\ mgrPc' = "waitProcess"
    /\ UNCHANGED <<orchestratorVars, inputVars, ctxErr, muxVars, publishVars,
                   fireVars, procVars, bodyVars, historyVars, traceVars, callerVars>>

\* A variant of ManagerCloseProcessedResponses without processWg.Wait().
ManagerCloseProcessedResponses_NoWait ==
    /\ mgrPc = "waitProcess"
    /\ closes' = Close("processedResponses")
    /\ mgrPc' = "done"
    /\ UNCHANGED <<orchestratorVars, inputVars, ctxErr, muxVars, publishVars,
                   fireVars, procVars, bodyVars, historyVars, traceVars, callerVars>>

\* processWg.Wait(); close(processedResponses)
ManagerCloseProcessedResponses ==
    /\ mgrPc = "waitProcess"
    /\ \A w \in ProcessWorkers : procPc[w] = "done"
    /\ closes' = Close("processedResponses")
    /\ mgrPc' = "done"
    /\ UNCHANGED <<orchestratorVars, inputVars, ctxErr, muxVars, publishVars,
                   fireVars, procVars, bodyVars, historyVars, traceVars, callerVars>>

----------------------------------------------------------------------------
\* The Publisher: publishAllRequests.

\* A variant of PublishSend that ranges over the requests from the last one.
PublishSend_Reverse(w) ==
    /\ pubPc = "publishing"
    /\ firePc[w] = "recv"
    /\ ~IsClosed("requestList")
    /\ fireParcel' = [fireParcel EXCEPT ![w] =
                        [NoParcel EXCEPT !.request = requests[Len(requests) + 1 - pubIndex],
                                         !.index = Len(requests) + 1 - pubIndex]]
    /\ firePc' = [firePc EXCEPT ![w] = "firing"]
    /\ pubIndex' = pubIndex + 1
    /\ pubPc' = IF pubIndex + 1 > Len(requests) THEN "done" ELSE "publishing"
    /\ published' = [published EXCEPT ![Len(requests) + 1 - pubIndex] = @ + 1]
    /\ transportCalls' = [transportCalls EXCEPT ![Len(requests) + 1 - pubIndex] = @ + 1]
    /\ startedAfterStop' = IF StopProcessing THEN startedAfterStop + 1 ELSE startedAfterStop
    /\ UNCHANGED <<orchestratorVars, inputVars, ctxErr, closes, muxVars, mgrPc,
                   procVars, bodyVars, historyVars, normalized, transportOutcome,
                   unreadable, callerVars>>

\* case requestList <- reqParcel, received by fire worker w in its range
\* loop, which calls the transport with it (executeRequest); after the last
\* request the publisher's loop ends and publishWg.Done() runs.
PublishSend(w) ==
    /\ pubPc = "publishing"
    /\ firePc[w] = "recv"
    /\ ~IsClosed("requestList")
    /\ fireParcel' = [fireParcel EXCEPT ![w] =
                        [NoParcel EXCEPT !.request = requests[pubIndex], !.index = pubIndex]]
    /\ firePc' = [firePc EXCEPT ![w] = "firing"]
    /\ pubIndex' = pubIndex + 1
    /\ pubPc' = IF pubIndex + 1 > Len(requests) THEN "done" ELSE "publishing"
    /\ published' = [published EXCEPT ![pubIndex] = @ + 1]
    /\ transportCalls' = [transportCalls EXCEPT ![pubIndex] = @ + 1]
    /\ startedAfterStop' = IF StopProcessing THEN startedAfterStop + 1 ELSE startedAfterStop
    /\ UNCHANGED <<orchestratorVars, inputVars, ctxErr, closes, muxVars, mgrPc,
                   procVars, bodyVars, historyVars, normalized, transportOutcome,
                   unreadable, callerVars>>

\* A variant of PublishStop whose break leaves the select only, so that the
\* loop tries the same request again.
PublishStop_BreaksSelectOnly ==
    /\ pubPc = "publishing"
    /\ StopProcessing
    /\ UNCHANGED vars

\* case <-stopProcessing: break LOOP; publishWg.Done()
PublishStop ==
    /\ pubPc = "publishing"
    /\ StopProcessing
    /\ pubPc' = "done"
    /\ UNCHANGED <<orchestratorVars, inputVars, ctxErr, closes, muxVars, mgrPc,
                   pubIndex, fireVars, procVars, bodyVars, historyVars, traceVars, callerVars>>

----------------------------------------------------------------------------
\* The Fire Stage: fireRequests.

\* A variant of FireClosed in which the worker leaves its loop although
\* requestList is open.
FireClosed_AnyTime(w) ==
    /\ firePc[w] = "recv"
    /\ firePc' = [firePc EXCEPT ![w] = "done"]
    /\ UNCHANGED <<orchestratorVars, inputVars, ctxErr, closes, muxVars, mgrPc,
                   publishVars, fireParcel, procVars, bodyVars, historyVars, traceVars, callerVars>>

\* range reqList ends because requestList is closed; fireWg.Done()
FireClosed(w) ==
    /\ firePc[w] = "recv"
    /\ IsClosed("requestList")
    /\ firePc' = [firePc EXCEPT ![w] = "done"]
    /\ UNCHANGED <<orchestratorVars, inputVars, ctxErr, closes, muxVars, mgrPc,
                   publishVars, fireParcel, procVars, bodyVars, historyVars, traceVars, callerVars>>

\* What a transport call returned, as recorded in transportOutcome.
Outcome(hasResponse, hasError) ==
    IF hasResponse /\ hasError THEN "response and error"
    ELSE IF hasError THEN "error"
    ELSE IF hasResponse THEN "response"
    ELSE "nothing"

\* A variant of TransportReturn in which the worker calls the transport again
\* when the call returned an error.
TransportReturn_Retry(w, hasResponse, hasError) ==
    /\ firePc[w] = "firing"
    /\ LET reqParcel == fireParcel[w]
           resp == IF hasResponse THEN TransportResponse(reqParcel.request.id)
                   ELSE NilResponse
           err == IF hasError THEN TransportError(reqParcel.request.id) ELSE NilError
           result == executeRequest(reqParcel, resp, err)
       IN /\ fireParcel' = IF hasError THEN fireParcel ELSE [fireParcel EXCEPT ![w] = result]
          /\ bodyOpened' = IF hasResponse /\ ~hasError THEN bodyOpened \cup {reqParcel.index}
                            ELSE bodyOpened
          /\ completedInTime' = IF ctxErr = "none" /\ ~hasError
                                 THEN completedInTime \cup {reqParcel.index}
                                 ELSE completedInTime
          /\ transportOutcome' = IF hasError THEN transportOutcome
                                  ELSE [transportOutcome EXCEPT ![reqParcel.index] =
                                           Outcome(hasResponse, hasError)]
          /\ transportCalls' = IF hasError
                                THEN [transportCalls EXCEPT ![reqParcel.index] = @ + 1]
                                ELSE transportCalls
    /\ firePc' = IF hasError THEN firePc ELSE [firePc EXCEPT ![w] = "send"]
    /\ UNCHANGED <<orchestratorVars, inputVars, ctxErr, closes, muxVars, mgrPc,
                   publishVars, procVars, bodyClosed, addCalls, inFlightAtDeadline,
                   published, normalized, unreadable, startedAfterStop, callerVars>>

\* cl.httpclient.Do returns to worker w inside executeRequest: a response or
\* nil, and an error or nil, whatever the state of the batch context.
TransportReturn(w, hasResponse, hasError) ==
    /\ firePc[w] = "firing"
    /\ LET reqParcel == fireParcel[w]
           resp == IF hasResponse THEN TransportResponse(reqParcel.request.id)
                   ELSE NilResponse
           err == IF hasError THEN TransportError(reqParcel.request.id) ELSE NilError
           result == executeRequest(reqParcel, resp, err)
       IN /\ fireParcel' = [fireParcel EXCEPT ![w] = result]
          /\ bodyOpened' = IF hasResponse THEN bodyOpened \cup {reqParcel.index}
                            ELSE bodyOpened
          /\ completedInTime' = IF ctxErr = "none" THEN completedInTime \cup {reqParcel.index}
                                 ELSE completedInTime
          /\ transportOutcome' = [transportOutcome EXCEPT ![reqParcel.index] =
                                      Outcome(hasResponse, hasError)]
    /\ firePc' = [firePc EXCEPT ![w] = "send"]
    /\ UNCHANGED <<orchestratorVars, inputVars, ctxErr, closes, muxVars, mgrPc,
                   publishVars, procVars, bodyClosed, addCalls, inFlightAtDeadline,
                   published, transportCalls, normalized, unreadable, startedAfterStop,
                   callerVars>>

\* A variant of FireSend after which the fire worker leaves its loop.
FireSend_OneShot(w, p) ==
    /\ firePc[w] = "send"
    /\ procPc[p] = "recv"
    /\ ~IsClosed("recievedResponses")
    /\ procParcel' = [procParcel EXCEPT ![p] = fireParcel[w]]
    /\ procPc' = [procPc EXCEPT ![p] = "parsing"]
    /\ fireParcel' = [fireParcel EXCEPT ![w] = NoParcel]
    /\ firePc' = [firePc EXCEPT ![w] = "done"]
    /\ UNCHANGED <<orchestratorVars, inputVars, ctxErr, closes, muxVars, mgrPc,
                   publishVars, bodyVars, historyVars, traceVars, callerVars>>

\* case receivedResponses <- result, received by process worker p in its
\* range loop.
FireSend(w, p) ==
    /\ firePc[w] = "send"
    /\ procPc[p] = "recv"
    /\ ~IsClosed("recievedResponses")
    /\ procParcel' = [procParcel EXCEPT ![p] = fireParcel[w]]
    /\ procPc' = [procPc EXCEPT ![p] = "parsing"]
    /\ fireParcel' = [fireParcel EXCEPT ![w] = NoParcel]
    /\ firePc' = [firePc EXCEPT ![w] = "recv"]
    /\ UNCHANGED <<orchestratorVars, inputVars, ctxErr, closes, muxVars, mgrPc,
                   publishVars, bodyVars, historyVars, traceVars, callerVars>>

\* A variant of FireStop that drops the result without closing its body.
FireStop_NoClose(w) ==
    /\ firePc[w] = "send"
    /\ StopProcessing
    /\ fireParcel' = [fireParcel EXCEPT ![w] = NoParcel]
    /\ firePc' = [firePc EXCEPT ![w] = "done"]
    /\ UNCHANGED <<orchestratorVars, inputVars, ctxErr, closes, muxVars, mgrPc,
                   publishVars, procVars, bodyVars, historyVars, traceVars, callerVars>>

\* A variant of FireStop whose break leaves the select only, so that the
\* worker goes on with its range loop.
FireStop_BreaksSelectOnly(w) ==
    /\ firePc[w] = "send"
    /\ StopProcessing
    /\ bodyClosed' = IF fireParcel[w].response # NilResponse
                     THEN [bodyClosed EXCEPT ![fireParcel[w].index] = @ + 1]
                     ELSE bodyClosed
    /\ fireParcel' = [fireParcel EXCEPT ![w] = NoParcel]
    /\ firePc' = [firePc EXCEPT ![w] = "recv"]
    /\ UNCHANGED <<orchestratorVars, inputVars, ctxErr, closes, muxVars, mgrPc,
                   publishVars, procVars, bodyOpened, historyVars, traceVars, callerVars>>

\* case <-stopProcessing: close the body if there is a response; break LOOP;
\* fireWg.Done()
FireStop(w) ==
    /\ firePc[w] = "send"
    /\ StopProcessing
    /\ bodyClosed' = IF fireParcel[w].response # NilResponse
                     THEN [bodyClosed EXCEPT ![fireParcel[w].index] = @ + 1]
                     ELSE bodyClosed
    /\ fireParcel' = [fireParcel EXCEPT ![w] = NoParcel]
    /\ firePc' = [firePc EXCEPT ![w] = "done"]
    /\ UNCHANGED <<orchestratorVars, inputVars, ctxErr, closes, muxVars, mgrPc,
                   publishVars, procVars, bodyOpened, historyVars, traceVars, callerVars>>

----------------------------------------------------------------------------
\* The Process Stage: processRequests.

\* range resList ends because recievedResponses is closed; processWg.Done()
ProcessClosed(p) ==
    /\ procPc[p] = "recv"
    /\ IsClosed("recievedResponses")
    /\ procPc' = [procPc EXCEPT ![p] = "done"]
    /\ UNCHANGED <<orchestratorVars, inputVars, ctxErr, closes, muxVars, mgrPc,
                   publishVars, fireVars, procParcel, bodyVars, historyVars, traceVars, callerVars>>

\* result := cl.parseResponse(ctx, resParcel), with its deferred Body.Close.
ProcessParse(p, readOk) ==
    /\ procPc[p] = "parsing"
    /\ procParcel' = [procParcel EXCEPT ![p] = parseResponse(ctxErr, procParcel[p], readOk)]
    /\ bodyClosed' = IF procParcel[p].response # NilResponse
                     THEN [bodyClosed EXCEPT ![procParcel[p].index] = @ + 1]
                     ELSE bodyClosed
    /\ normalized' = [normalized EXCEPT ![procParcel[p].index] = @ + 1]
    /\ unreadable' = IF procParcel[p].err = NilError /\ procParcel[p].response # NilResponse
                         /\ ~readOk
                      THEN unreadable \cup {procParcel[p].index} ELSE unreadable
    /\ procPc' = [procPc EXCEPT ![p] = "send"]
    /\ UNCHANGED <<orchestratorVars, inputVars, ctxErr, closes, muxVars, mgrPc,
                   publishVars, fireVars, bodyOpened, historyVars, published,
                   transportCalls, transportOutcome, startedAfterStop, callerVars>>

\* A variant of ProcessSend in which responseMux still receives after it has
\* delivered its slice.
ProcessSend_AfterDelivery(p) ==
    /\ procPc[p] = "send"
    /\ muxPc \in {"collecting", "done"}
    /\ ~IsClosed("processedResponses")
    /\ arrayOfResponses' = Append(arrayOfResponses, procParcel[p])
    /\ done' = done + 1
    /\ muxPc' = IF muxPc = "done" THEN "done"
                ELSE IF responseMuxLoop(done + 1) THEN "collecting" ELSE "send"
    /\ procParcel' = [procParcel EXCEPT ![p] = NoParcel]
    /\ procPc' = [procPc EXCEPT ![p] = "recv"]
    /\ UNCHANGED <<orchestratorVars, inputVars, ctxErr, closes, delivered, mgrPc,
                   publishVars, fireVars, bodyVars, historyVars, traceVars, callerVars>>

\* A variant of ProcessSend in which the worker keeps the result it has sent
\* and sends it again.
ProcessSend_Resend(p) ==
    /\ procPc[p] = "send"
    /\ muxPc = "collecting"
    /\ ~IsClosed("processedResponses")
    /\ arrayOfResponses' = Append(arrayOfResponses, procParcel[p])
    /\ done' = done + 1
    /\ muxPc' = IF responseMuxLoop(done + 1) THEN "collecting" ELSE "send"
    /\ UNCHANGED procVars
    /\ UNCHANGED <<orchestratorVars, inputVars, ctxErr, closes, delivered, mgrPc,
                   publishVars, fireVars, bodyVars, historyVars, traceVars, callerVars>>

\* case processedResponses <- result, received by responseMux's select:
\* append, done++, and leave the loop once done reaches len(requests).
ProcessSend(p) ==
    /\ procPc[p] = "send"
    /\ muxPc = "collecting"
    /\ ~IsClosed("processedResponses")
    /\ arrayOfResponses' = Append(arrayOfResponses, procParcel[p])
    /\ done' = done + 1
    /\ muxPc' = IF responseMuxLoop(done + 1) THEN "collecting" ELSE "send"
    /\ procParcel' = [procParcel EXCEPT ![p] = NoParcel]
    /\ procPc' = [procPc EXCEPT ![p] = "recv"]
    /\ UNCHANGED <<orchestratorVars, inputVars, ctxErr, closes, delivered, mgrPc,
                   publishVars, fireVars, bodyVars, historyVars, traceVars, callerVars>>

\* A variant of ProcessStop in which the worker stores the result it holds in
\* the batch before it exits.
ProcessStop_WritesLedger(p) ==
    /\ procPc[p] = "send"
    /\ StopProcessing
    /\ LET l == Merge(responses, errors, <<procParcel[p]>>)
       IN responses' = l.responses /\ errors' = l.errors
    /\ procParcel' = [procParcel EXCEPT ![p] = NoParcel]
    /\ procPc' = [procPc EXCEPT ![p] = "done"]
    /\ UNCHANGED <<requests, doPc, ret, inputVars, ctxErr, closes, muxVars, mgrPc,
                   publishVars, fireVars, bodyVars, historyVars, traceVars, callerVars>>

\* case <-stopProcessing: break LOOP; processWg.Done()
ProcessStop(p) ==
    /\ procPc[p] = "send"
    /\ StopProcessing
    /\ procParcel' = [procParcel EXCEPT ![p] = NoParcel]
    /\ procPc' = [procPc EXCEPT ![p] = "done"]
    /\ UNCHANGED <<orchestratorVars, inputVars, ctxErr, closes, muxVars, mgrPc,
                   publishVars, fireVars, bodyVars, historyVars, traceVars, callerVars>>

----------------------------------------------------------------------------
\* The specification.

Builder == CallAddRequest
Orchestrator == DoEmpty \/ DoStart \/ completionListener \/ DoCancel \/ DoReturn
Mux == MuxBreak
Manager ==
    \/ ManagerStart
    \/ ManagerCloseRequestList
    \/ ManagerCloseRecievedResponses
    \/ ManagerCloseProcessedResponses
Publisher == PublishStop \/ \E w \in FireWorkers : PublishSend(w)
Transport == \E w \in FireWorkers : \E hasResponse, hasError \in BOOLEAN :
                TransportReturn(w, hasResponse, hasError)
Fire(w) == FireClosed(w) \/ FireStop(w) \/ \E p \in ProcessWorkers : FireSend(w, p)
Process(p) ==
    \/ ProcessClosed(p)
    \/ ProcessStop(p)
    \/ ProcessSend(p)
    \/ \E readOk \in BOOLEAN : ProcessParse(p, readOk)

Next ==
    \/ Builder
    \/ Orchestrator
    \/ Deadline
    \/ Mux
    \/ Manager
    \/ Publisher
    \/ Transport
    \/ \E w \in FireWorkers : Fire(w)
    \/ \E p \in ProcessWorkers : Process(p)

Spec == Init /\ [][Next]_vars

\* The executions in which the caller also closes the returned bodies.
NextWithClose == Next \/ CallCloseAllResponses

SpecWithClose == Init /\ [][NextWithClose]_vars

\* Fairness.  FairDo: the timer fires, and responseMux and the goroutine that
\* called Do are scheduled; nothing is assumed of the transport or the pools.
\* FairAll: every goroutine is scheduled and every transport call returns.
FairDo == Spec /\ WF_vars(Deadline) /\ WF_vars(Mux) /\ WF_vars(Orchestrator)

FairAll ==
    /\ Spec
    /\ WF_vars(Orchestrator)
    /\ WF_vars(Deadline)
    /\ WF_vars(Mux)
    /\ WF_vars(Manager)
    /\ WF_vars(Publisher)
    /\ WF_vars(Transport)
    /\ WF_vars(\E w \in FireWorkers : Fire(w))
    /\ WF_vars(\E p \in ProcessWorkers : Process(p))

\* FairPublisher: publishAllRequests is scheduled; nothing else is assumed.
FairPublisher == Spec /\ WF_vars(Publisher)

\* FairPipeline: every goroutine is scheduled and every transport call
\* returns, and nothing is assumed of the timer.
FairPipeline ==
    /\ Spec
    /\ WF_vars(Orchestrator)
    /\ WF_vars(Mux)
    /\ WF_vars(Manager)
    /\ WF_vars(Publisher)
    /\ WF_vars(Transport)
    /\ WF_vars(\E w \in FireWorkers : Fire(w))
    /\ WF_vars(\E p \in ProcessWorkers : Process(p))

----------------------------------------------------------------------------
\* Vocabulary of the properties.

Returned == doPc = "returned"
NonEmpty == Len(requests) >= 1
DeadlineExpired == ctxErr = "DeadlineExceeded"
Collected == {arrayOfResponses[k].index : k \in DOMAIN arrayOfResponses}
\* No goroutine of the execution is running: each one has returned, or was
\* never started.
AllTerminated ==
    /\ muxPc \in {"idle", "done"}
    /\ mgrPc \in {"idle", "done"}
    /\ pubPc \in {"idle", "done"}
    /\ \A w \in FireWorkers : firePc[w] \in {"idle", "done"}
    /\ \A p \in ProcessWorkers : procPc[p] \in {"idle", "done"}

\* Slot i of what Do returned.
Slot(i) == [response |-> ret.responses[i], err |-> ret.errors[i]]

\* The transport failed request i, or its body could not be read.
Failed(i) ==
    \/ transportOutcome[i] \in {"error", "response and error", "nothing"}
    \/ i \in unreadable

\* What request i's own transport outcome amounts to once normalized while the
\* batch context has not ended.
OwnOutcome(i) ==
    IF transportOutcome[i] \in {"error", "response and error"}
    THEN [response |-> NilResponse,
          err |-> [kind |-> "http client error", cause |-> requests[i].id]]
    ELSE IF transportOutcome[i] = "nothing"
    THEN [response |-> NilResponse, err |-> [kind |-> "no response received", cause |-> 0]]
    ELSE IF transportOutcome[i] = "response" /\ i \in unreadable
    THEN [response |-> NilResponse,
          err |-> [kind |-> "error while reading response body", cause |-> requests[i].id]]
    ELSE IF transportOutcome[i] = "response"
    THEN [response |-> [body |-> "memory", request |-> requests[i].id, ctx |-> "background"],
          err |-> NilError]
    ELSE [response |-> NilResponse, err |-> ErrRequestIgnored]

NonNil(response) == response # NilResponse
IsError(err) == err # NilError
Ignored(i) == ret.responses[i] = NilResponse /\ ret.errors[i] = ErrRequestIgnored

----------------------------------------------------------------------------
\* C1: when Do returns for a batch of N >= 1 requests, the responses and errors
\* it returns both have length N and every index holds exactly one of a
\* response and an error, on the all-collected path and on the deadline path.
C1_ExactlyOneOutcome ==
    (Returned /\ NonEmpty) =>
        /\ Len(ret.responses) = Len(requests)
        /\ Len(ret.errors) = Len(requests)
        /\ \A i \in Indices : NonNil(ret.responses[i]) # IsError(ret.errors[i])

\* A return on the deadline path with one slot answered and one backfilled.
C1_Witness ==
    /\ Returned
    /\ DeadlineExpired
    /\ \E i, j \in Indices : NonNil(ret.responses[i]) /\ ret.errors[j] = ErrRequestIgnored

\* C2: the outcome returned at index i was produced for requests[i]: a
\* response carries request i, a wrapped transport or body-read error names
\* request i, and every parcel the multiplexer delivered is stored at its own
\* index; anything else at index i is ErrRequestIgnored.
C2_OrderPreserved ==
    (Returned /\ NonEmpty) =>
        /\ \A i \in Indices :
              /\ NonNil(ret.responses[i]) => ret.responses[i].request = requests[i].id
              /\ ret.errors[i].kind \in {"http client error", "error while reading response body"}
                    => ret.errors[i].cause = requests[i].id
        /\ \A k \in DOMAIN arrayOfResponses :
              LET parcel == arrayOfResponses[k]
              IN /\ ret.responses[parcel.index] = parcel.response
                 /\ ret.errors[parcel.index] = parcel.err
        /\ \A i \in Indices \ Collected : Ignored(i)

\* Both requests answered although the second one was collected first.
C2_Witness ==
    /\ Returned
    /\ Len(requests) = 2
    /\ Len(arrayOfResponses) = 2
    /\ arrayOfResponses[1].index = 2
    /\ NonNil(ret.responses[1])
    /\ ret.errors[2].kind = "http client error"

\* C3: Do on an empty batch returns a nil responses slice and the single error
\* ErrNoRequests, starts no goroutine, makes no transport call and leaves the
\* batch's responses and errors as they were.
C3_EmptyBatch ==
    (Returned /\ ~NonEmpty) =>
        /\ ret = [responses |-> <<>>, errors |-> <<ErrNoRequests>>]
        /\ responses = <<>>
        /\ errors = <<>>
        /\ muxPc = "idle"
        /\ mgrPc = "idle"
        /\ pubPc = "idle"
        /\ firePc = <<>>
        /\ procPc = <<>>
        /\ ctxErr = "none"
        /\ \A ch \in Channels : closes[ch] = 0

\* Do has returned for an empty batch while workers were asked for.
C3_Witness ==
    /\ Returned
    /\ ~NonEmpty
    /\ fireRequestsWorkers > 0
    /\ processResponseWorkers > 0

\* C4: once the deadline has fired Do eventually returns, whatever the
\* transport calls and the pools do (checked under FairDo).
C4_ReturnsAfterDeadline == DeadlineExpired ~> Returned

\* Do has returned on the deadline path while a transport call is still running.
C4_Witness ==
    /\ Returned
    /\ DeadlineExpired
    /\ \E w \in FireWorkers : firePc[w] = "firing"

\* C5: once responseMux's slice has been delivered for a non-empty batch (and
\* so when Do returns), either all N results were collected or the deadline
\* has expired.
C5_NoEarlyReturn ==
    (NonEmpty /\ doPc \in {"merged", "cancelled", "returned"}) =>
        (done = Len(requests) /\ Len(arrayOfResponses) = Len(requests)) \/ DeadlineExpired

\* A return with every result collected and the deadline not expired.
C5_Witness ==
    /\ Returned
    /\ Len(requests) = 2
    /\ done = 2
    /\ ctxErr = "Canceled"

\* C6 as claimed: if the deadline expired before any transport call had
\* returned, every slot Do returns is ErrRequestIgnored with a nil response.
C6_AllIgnoredAfterDeadline ==
    (Returned /\ NonEmpty /\ DeadlineExpired /\ completedInTime = {}) =>
        \A i \in Indices : Ignored(i)

\* C7 as claimed: the slot of a transport call that was in flight when the
\* deadline expired ends as ErrRequestIgnored with a nil response.
C7_LateResultDiscarded ==
    Returned => \A i \in inFlightAtDeadline : Ignored(i)

\* C8: every request whose result responseMux had not received when it
\* delivered its slice (never published, still in the transport, or still in
\* a pool) is returned as ErrRequestIgnored with a nil response.
C8_UncollectedAreIgnored ==
    (Returned /\ NonEmpty) =>
        \A i \in Indices \ Collected :
            /\ Ignored(i)
            /\ responses[i] = NilResponse
            /\ errors[i] = ErrRequestIgnored

\* A return where request 1 was fired but not collected and request 2 was
\* never published.
C8_Witness ==
    /\ Returned
    /\ Len(requests) = 2
    /\ Collected = {}
    /\ pubIndex = 2
    /\ pubPc = "done"

\* C9: no body the transport returned is closed twice, no body is closed that
\* was not obtained, and once every goroutine has terminated every obtained
\* body has been closed exactly once.
C9_BodyClosedOnce ==
    /\ \A i \in Indices : bodyClosed[i] <= 1
    /\ \A i \in Indices : bodyClosed[i] = 1 => i \in bodyOpened
    /\ (Returned /\ AllTerminated) => \A i \in bodyOpened : bodyClosed[i] = 1

\* Everything has terminated; one body was read into a returned response and
\* another one, whose slot was backfilled, was closed on the way out.
C9_Witness ==
    /\ Returned
    /\ AllTerminated
    /\ bodyOpened = {1, 2}
    /\ \E i, j \in Indices : NonNil(ret.responses[i]) /\ j \notin Collected

\* C10: after Do has returned every goroutine it started terminates, provided
\* every transport call returns (checked under FairAll).
C10_NoGoroutineLeak == Returned ~> AllTerminated

\* Every goroutine has terminated after a return on the deadline path that
\* left requests unpublished.
C10_Witness ==
    /\ Returned
    /\ NonEmpty
    /\ AllTerminated
    /\ DeadlineExpired
    /\ pubIndex <= Len(requests)

\* The transport calls in flight and the normalizations in progress.
InFlight == {w \in FireWorkers : firePc[w] = "firing"}
Normalizing == {p \in ProcessWorkers : procPc[p] = "parsing"}

\* C11: at every moment at most fireRequestsWorkers transport calls are in
\* flight and at most processResponseWorkers normalizations are in progress,
\* whatever the number of requests.
C11_BoundedConcurrency ==
    /\ Cardinality(InFlight) <= fireRequestsWorkers
    /\ Cardinality(Normalizing) <= processResponseWorkers

\* Two requests and one worker per pool: the second request is in the
\* transport while the first one is being normalized.
C11_Witness ==
    /\ Len(requests) = 2
    /\ fireRequestsWorkers = 1
    /\ processResponseWorkers = 1
    /\ Cardinality(InFlight) = 1
    /\ Cardinality(Normalizing) = 1

\* C12: within one call of Do no request is published twice, passed to the
\* transport twice or normalized twice, and a request is normalized only after
\* its transport call and called only after it was published.
C12_NoDuplication ==
    \A i \in 1..MaxRequests :
        /\ published[i] <= 1
        /\ transportCalls[i] <= published[i]
        /\ normalized[i] <= transportCalls[i]
        /\ i \notin Indices => published[i] = 0

\* Do has returned after both requests went once through every stage, the
\* first of them having failed in the transport.
C12_Witness ==
    /\ Returned
    /\ Len(requests) = 2
    /\ transportOutcome[1] = "error"
    /\ \A i \in Indices : published[i] = 1 /\ transportCalls[i] = 1 /\ normalized[i] = 1

\* C13: a request that failed in the transport, came back without a response
\* or had an unreadable body leaves every other slot alone: when Do returns,
\* each other slot holds that request's own outcome, or, on the deadline path
\* only, ErrRequestIgnored; the failed request's slot holds its own failure.
C13_FailureIsolation ==
    Returned =>
        \A i \in Indices : Failed(i) =>
            /\ \A j \in Indices \ {i} :
                  \/ Slot(j) = OwnOutcome(j)
                  \/ DeadlineExpired /\ Ignored(j)
            /\ ~DeadlineExpired => Slot(i) = OwnOutcome(i)

\* The single fire worker and the single process worker handled a failed
\* request first and then a request that succeeded; the deadline never fired.
C13_Witness ==
    /\ Returned
    /\ ctxErr = "Canceled"
    /\ fireRequestsWorkers = 1
    /\ processResponseWorkers = 1
    /\ Len(requests) = 2
    /\ transportOutcome[1] = "error"
    /\ ret.errors[1].kind = "http client error"
    /\ NonNil(ret.responses[2])

ParseStep(p) == procPc[p] = "parsing" /\ procPc'[p] = "send"

\* C15: every parseResponse call classifies its input by the first rule that
\* applies: an error while the batch context has ended gives ErrRequestIgnored;
\* else an error gives the wrapped transport error; else a nil response gives
\* "no response received"; else a failed body read gives the wrapped body-read
\* error; else the buffered response.  The result carries the input's index
\* and exactly one of a response and an error.
C15_NormalizationPrecedence ==
    [][\A p \in ProcessWorkers : ParseStep(p) =>
          LET res == procParcel[p]
              out == procParcel'[p]
          IN /\ out.index = res.index
             /\ NonNil(out.response) # IsError(out.err)
             /\ IF res.err # NilError /\ CtxDone
                THEN out.err = ErrRequestIgnored
                ELSE IF res.err # NilError
                THEN out.err = [kind |-> "http client error", cause |-> res.err.cause]
                ELSE IF res.response = NilResponse
                THEN out.err = [kind |-> "no response received", cause |-> 0]
                ELSE IF res.index \in unreadable'
                THEN out.err = [kind |-> "error while reading response body",
                                cause |-> res.request.id]
                ELSE out.response = [body |-> "memory", request |-> res.request.id,
                                     ctx |-> "background"]]_vars

\* A result that came with a response and an error was normalized after the
\* batch context had ended: the first rule applied.
C15_Witness ==
    \E p \in ProcessWorkers :
        /\ procPc[p] = "send"
        /\ procParcel[p].err = ErrRequestIgnored
        /\ transportOutcome[procParcel[p].index] = "response and error"

\* C16: when Do returns without the deadline having expired, with at least
\* one worker in each pool, what it returns is a function of the transport
\* outcome of each request alone: slot i holds the normalization of request
\* i's outcome, whatever the interleaving, the order of arrival and the
\* worker counts; the batch's own slices hold the same.
C16_Deterministic ==
    (Returned /\ NonEmpty /\ ~DeadlineExpired
        /\ fireRequestsWorkers >= 1 /\ processResponseWorkers >= 1) =>
        /\ ret.responses = [i \in Indices |-> OwnOutcome(i).response]
        /\ ret.errors = [i \in Indices |-> OwnOutcome(i).err]
        /\ responses = ret.responses
        /\ errors = ret.errors

\* Two workers per pool; the second request, which came back without a
\* response, was collected before the first one, which succeeded.
C16_Witness ==
    /\ Returned
    /\ ctxErr = "Canceled"
    /\ fireRequestsWorkers = 2
    /\ processResponseWorkers = 2
    /\ Len(arrayOfResponses) = 2
    /\ arrayOfResponses[1].index = 2
    /\ transportOutcome[1] = "response"
    /\ transportOutcome[2] = "nothing"
    /\ NonNil(ret.responses[1])

\* C17: every non-nil response Do returns has its body in memory and a request
\* whose context is context.Background(), not the batch context; it is another
\* object than the transport's response, whose body was obtained and has
\* already been closed, exactly once.  This holds after the batch context has
\* been cancelled.
C17_ReadableAfterReturn ==
    (Returned /\ NonEmpty) =>
        /\ CtxDone
        /\ \A i \in Indices : NonNil(ret.responses[i]) =>
              /\ ret.responses[i].body = "memory"
              /\ ret.responses[i].ctx = "background"
              /\ ret.responses[i].request = requests[i].id
              /\ ret.responses[i] # TransportResponse(requests[i].id)
              /\ i \in bodyOpened
              /\ bodyClosed[i] = 1

\* Do has returned two buffered responses and cancelled the batch context.
C17_Witness ==
    /\ Returned
    /\ ctxErr = "Canceled"
    /\ Len(requests) = 2
    /\ \A i \in Indices : ret.responses[i].body = "memory"

\* C18: while the batch is being built, after k AddRequest calls requests
\* holds exactly the k requests passed, in call order; and no step ever
\* removes or moves a request that is in the batch.
C18_AppendOnly ==
    /\ [](doPc = "call" => requests = [k \in 1..addCalls |-> NewRequest(k)])
    /\ [][\A k \in DOMAIN requests :
              k \in DOMAIN requests' /\ requests'[k].id = requests[k].id]_vars

\* Two chained AddRequest calls have been made and Do has not been called.
C18_Witness ==
    /\ doPc = "call"
    /\ addCalls = 2
    /\ Len(requests) = 2

\* C19: a CloseAllResponses call closes the body of every non-nil entry of
\* responses once, closes nothing for a nil entry, and leaves requests,
\* responses and errors as they are; on a batch that was never executed
\* (responses empty) it closes nothing (checked under SpecWithClose).
C19_CloseAllResponses ==
    [][closeAllCalls' # closeAllCalls =>
          /\ responses' = responses
          /\ errors' = errors
          /\ requests' = requests
          /\ \A i \in 1..MaxRequests :
                responseClosed'[i] =
                    IF i \in DOMAIN responses /\ NonNil(responses[i])
                    THEN responseClosed[i] + 1 ELSE responseClosed[i]
          /\ responses = <<>> => responseClosed' = responseClosed]_vars

\* CloseAllResponses was called after Do returned one response and one error.
C19_Witness ==
    /\ Returned
    /\ closeAllCalls = 1
    /\ \E i, j \in Indices :
          /\ NonNil(responses[i]) /\ responseClosed[i] = 1
          /\ responses[j] = NilResponse /\ responseClosed[j] = 0

\* C20 as claimed: parseResponse gives ErrRequestIgnored only for a transport
\* error the batch deadline scope caused; the error of a transport call that
\* returned before the batch context ended, which the context cannot have
\* caused, is never classified as ErrRequestIgnored.
C20_IgnoredOnlyIfDeadlineCaused ==
    \A p \in ProcessWorkers :
        (procPc[p] = "send" /\ procParcel[p].err = ErrRequestIgnored) =>
            procParcel[p].index \notin completedInTime

\* Every request of the batch went through every stage and was collected.
AllCollected ==
    \A i \in Indices :
        /\ published[i] = 1
        /\ transportCalls[i] = 1
        /\ normalized[i] = 1
        /\ i \in Collected

\* C21: with at least one worker in each pool, in every execution in which
\* the deadline never expires Do eventually returns with all N requests
\* published, fired, normalized and collected, also when N exceeds a worker
\* count: the hand-offs never deadlock (checked under FairPipeline, which
\* does not make the timer fire).
C21_PipelineProgress ==
    (fireRequestsWorkers >= 1 /\ processResponseWorkers >= 1 /\ []~DeadlineExpired)
        => <>(Returned /\ AllCollected)

\* Do has returned two collected requests that one worker per pool handled,
\* and the deadline never fired.
C21_Witness ==
    /\ Returned
    /\ ctxErr = "Canceled"
    /\ Len(requests) = 2
    /\ fireRequestsWorkers = 1
    /\ processResponseWorkers = 1
    /\ AllCollected

\* responseMux has left its loop (it is sending or has sent its slice).
Delivering == muxPc \in {"send", "done"}

\* C22: responseMux sends its slice on collectResponses at most once, and
\* exactly once by the time a non-empty Do returns; once it has left its loop
\* it receives nothing more (its slice and counter stay as they are); and a
\* process worker that holds a normalized result after the delivery can only
\* drop it and exit.
C22_DeliversOnce ==
    /\ [](delivered <= 1)
    /\ []((Returned /\ NonEmpty) => delivered = 1)
    /\ [][Delivering => arrayOfResponses' = arrayOfResponses /\ done' = done]_vars
    /\ [][\A p \in ProcessWorkers :
              (muxPc = "done" /\ procPc[p] = "send" /\ procPc'[p] # "send") =>
                  procPc'[p] = "done" /\ procParcel'[p] = NoParcel]_vars

\* A process worker has dropped, after the delivery, the result of a request
\* that was normalized but not collected.
C22_Witness ==
    /\ delivered = 1
    /\ \E i \in Indices : normalized[i] = 1 /\ i \notin Collected
    /\ \A p \in ProcessWorkers : procPc[p] = "done"

\* The number of collected results that carry index i.
CollectedFor(i) == Cardinality({k \in DOMAIN arrayOfResponses : arrayOfResponses[k].index = i})

\* C23: responseMux's slice never holds more than N results, their indices
\* are pairwise distinct and lie in 1..N (0..N-1 in the code), and done equals
\* the number of results collected; so the merge writes an index at most once.
C23_DistinctIndices ==
    /\ Len(arrayOfResponses) <= Len(requests)
    /\ done = Len(arrayOfResponses)
    /\ \A k \in DOMAIN arrayOfResponses : arrayOfResponses[k].index \in Indices
    /\ \A i \in Indices : CollectedFor(i) <= 1

\* Both results of a batch of two have been collected by a single process
\* worker, one after the other.
C23_Witness ==
    /\ Len(requests) = 2
    /\ processResponseWorkers = 1
    /\ done = 2
    /\ Collected = {1, 2}
    /\ doPc = "merged"

\* C24: a step that changes the batch's responses or errors is a step of the
\* goroutine that called Do, taken before Do has merged (the allocation in Do,
\* or the merge and backfill of completionListener), and it changes nothing
\* the publisher or a worker holds; from the merge on, and so after Do has
\* returned, no step changes them.
C24_SingleWriter ==
    [][(responses' # responses \/ errors' # errors) =>
          /\ doPc \in {"call", "listen"}
          /\ doPc' \in {"listen", "merged"}
          /\ doPc' # doPc
          /\ UNCHANGED <<publishVars, fireVars, procVars>>]_vars

\* After Do has returned a process worker still holds the response of a
\* request whose slot was backfilled.
C24_Witness ==
    /\ Returned
    /\ \E p \in ProcessWorkers :
          /\ procPc[p] = "send"
          /\ NonNil(procParcel[p].response)
          /\ Ignored(procParcel[p].index)
          /\ responses[procParcel[p].index] = NilResponse

\* C25: from the merge on, on either return path, every result responseMux
\* had collected stands unchanged at its index in what Do returns and in the
\* batch; a slot holds a backfilled ErrRequestIgnored only if no result was
\* collected for it; and a second backfill would change nothing.
C25_CollectedSurvive ==
    (NonEmpty /\ doPc \in {"merged", "cancelled", "returned"}) =>
        /\ \A k \in DOMAIN arrayOfResponses :
              LET parcel == arrayOfResponses[k]
              IN /\ ret.responses[parcel.index] = parcel.response
                 /\ ret.errors[parcel.index] = parcel.err
                 /\ responses[parcel.index] = parcel.response
                 /\ errors[parcel.index] = parcel.err
        /\ \A i \in Indices \ Collected :
              ret.responses[i] = NilResponse /\ ret.errors[i] = ErrRequestIgnored
        /\ addRequestIgnoredErrors(ret.responses, ret.errors) = ret

\* A return on the deadline path: a collected transport error kept its slot
\* and another slot was backfilled.
C25_Witness ==
    /\ Returned
    /\ DeadlineExpired
    /\ \E i \in Collected : ret.errors[i].kind = "http client error"
    /\ \E j \in Indices : j \notin Collected

\* The indices whose parcel the publisher has sent.
Published == {i \in 1..MaxRequests : published[i] >= 1}

\* C26: the indices published so far are always a prefix 1..k of the batch
\* (0..k-1 in the code), a step publishes exactly the next index after that
\* prefix, once, and the parcel a fire worker received for index i carries
\* requests[i].
C26_PublishedInOrder ==
    /\ [](\E k \in 0..Len(requests) : Published = 1..k)
    /\ [][Published' # Published =>
              Published' = Published \cup {Cardinality(Published) + 1}]_vars
    /\ [](\A w \in FireWorkers : firePc[w] \in {"firing", "send"} =>
              /\ fireParcel[w].index \in Published
              /\ fireParcel[w].request = requests[fireParcel[w].index])

\* With two fire workers, the second request has been published while the
\* first one is still in the transport.
C26_Witness ==
    /\ Published = {1, 2}
    /\ \E w, v \in FireWorkers :
          /\ firePc[w] = "firing" /\ fireParcel[w].index = 1
          /\ firePc[v] = "firing" /\ fireParcel[v].index = 2

\* C27: a publisher that is in its loop when stopProcessing is closed
\* eventually leaves it (checked under FairPublisher); once it has left it
\* publishes nothing further; and every request it never published was never
\* passed to the transport and is returned as ErrRequestIgnored.
C27_PublisherStops ==
    /\ (pubPc = "publishing" /\ StopProcessing) ~> (pubPc = "done")
    /\ [][pubPc = "done" => published' = published /\ pubPc' = "done"]_vars
    /\ []((pubPc = "done" /\ Returned) =>
              \A i \in Indices \ Published : transportCalls[i] = 0 /\ Ignored(i))

\* The publisher took the stop branch with the second request unpublished;
\* workerManager has not yet closed requestList.
C27_Witness ==
    /\ Returned
    /\ StopProcessing
    /\ pubPc = "done"
    /\ mgrPc = "waitPublish"
    /\ Len(requests) = 2
    /\ Published = {1}

\* C28: requestList is closed only once the publisher has finished,
\* recievedResponses only once requestList is closed and every fire worker
\* has exited, processedResponses only once recievedResponses is closed and
\* every process worker has exited; none of the three is closed twice, and
\* when workerManager has returned each has been closed exactly once.
C28_StagedShutdown ==
    /\ \A ch \in {"requestList", "recievedResponses", "processedResponses"} : closes[ch] <= 1
    /\ IsClosed("requestList") => pubPc = "done"
    /\ IsClosed("recievedResponses") =>
          IsClosed("requestList") /\ \A w \in FireWorkers : firePc[w] = "done"
    /\ IsClosed("processedResponses") =>
          IsClosed("recievedResponses") /\ \A p \in ProcessWorkers : procPc[p] = "done"
    /\ mgrPc = "done" =>
          \A ch \in {"requestList", "recievedResponses", "processedResponses"} : closes[ch] = 1

\* workerManager has returned after closing the three channels behind two
\* workers per pool.
C28_Witness ==
    /\ mgrPc = "done"
    /\ fireRequestsWorkers = 2
    /\ processResponseWorkers = 2
    /\ closes["requestList"] = 1
    /\ closes["recievedResponses"] = 1
    /\ closes["processedResponses"] = 1

\* C29 as claimed: a fire worker that has exited finds requestList closed.
C29_ExitsOnlyAfterClose ==
    \A w \in FireWorkers : firePc[w] = "done" => IsClosed("requestList")

\* C29, amended: a fire worker exits either from its range loop, when
\* requestList has been closed, or from the hand-off of a result, when
\* stopProcessing has been closed; as long as stopProcessing is open, a worker
\* that has exited finds requestList closed and every request published.
C29_ExitsAfterCloseOrStop ==
    /\ [][\A w \in FireWorkers : (firePc[w] # "done" /\ firePc'[w] = "done") =>
              \/ firePc[w] = "recv" /\ IsClosed("requestList")
              \/ firePc[w] = "send" /\ StopProcessing]_vars
    /\ [](\A w \in FireWorkers : (firePc[w] = "done" /\ ~StopProcessing) =>
              IsClosed("requestList") /\ Published = Indices)

\* A fire worker has exited through the stop branch while the publisher is
\* still in its loop and requestList is open.
C29_Witness ==
    /\ StopProcessing
    /\ pubPc = "publishing"
    /\ ~IsClosed("requestList")
    /\ \E w \in FireWorkers : firePc[w] = "done"

\* C30: stopProcessing is never closed twice; when a non-empty Do has
\* returned, on the all-collected path or on the deadline path, it has been
\* closed exactly once; it is closed only after responseMux has delivered and
\* returned, never while it is collecting; and once it is closed every
\* goroutine of the call eventually terminates (checked under FairAll).
C30_StopBroadcastOnce ==
    /\ [](closes["stopProcessing"] <= 1)
    /\ []((Returned /\ NonEmpty) => closes["stopProcessing"] = 1)
    /\ [](StopProcessing => (muxPc = "done" /\ Returned))
    /\ StopProcessing ~> AllTerminated

\* The stop signal was broadcast once on the all-collected path and every
\* goroutine has terminated.
C30_Witness ==
    /\ closes["stopProcessing"] = 1
    /\ ctxErr = "Canceled"
    /\ Len(requests) = 2
    /\ done = 2
    /\ AllTerminated

\* The steps a fire worker or a process worker takes on its own to leave its
\* loop: the end of its range loop and the stop branch of its hand-off select.
FireExit(w) == FireClosed(w) \/ FireStop(w)
ProcessExit(p) == ProcessClosed(p) \/ ProcessStop(p)

\* A worker is suspended when it waits for input from its stage's queue or
\* for the next stage to take its result.
FireSuspended(w) == firePc[w] \in {"recv", "send"}
ProcessSuspended(p) == procPc[p] \in {"recv", "send"}

\* C31: once the stop signal has been broadcast, a fire worker or a process
\* worker suspended at either point, waiting for input or pushing its result,
\* is released by the stop signal itself: it can leave its loop without a
\* step of any other goroutine.
C31_StopReleasesBothPoints ==
    StopProcessing =>
        /\ \A w \in FireWorkers : FireSuspended(w) => ENABLED FireExit(w)
        /\ \A p \in ProcessWorkers : ProcessSuspended(p) => ENABLED ProcessExit(p)

\* The goroutines that may still send on channel ch: the publisher on
\* requestList, the fire workers on recievedResponses, the process workers on
\* processedResponses, responseMux on collectResponses; nothing is ever sent
\* on stopProcessing.
SenderRemains(ch) ==
    CASE ch = "requestList" -> pubPc # "done"
      [] ch = "recievedResponses" -> \E w \in FireWorkers : firePc[w] # "done"
      [] ch = "processedResponses" -> \E p \in ProcessWorkers : procPc[p] # "done"
      [] ch = "collectResponses" -> muxPc # "done"
      [] OTHER -> FALSE

\* C32: no channel is closed twice, and a closed channel has no goroutine
\* left that may send on it, so that no send meets a closed channel;
\* collectResponses is closed only once responseMux's single send has been
\* received, and stopProcessing is closed only by the deferred close with
\* which Do returns.
C32_NoChannelMisuse ==
    /\ [](\A ch \in Channels : closes[ch] <= 1)
    /\ [](\A ch \in Channels : IsClosed(ch) => ~SenderRemains(ch))
    /\ [](IsClosed("collectResponses") => delivered = 1 /\ doPc \notin {"call", "listen"})
    /\ [][closes'["stopProcessing"] # closes["stopProcessing"] =>
              doPc = "cancelled" /\ doPc' = "returned"]_vars

\* Every channel of a two-request call has been closed, each once.
C32_Witness ==
    /\ Len(requests) = 2
    /\ delivered = 1
    /\ \A ch \in Channels : closes[ch] = 1

\* One of the two pools was configured with no worker.
ZeroWorkers == fireRequestsWorkers = 0 \/ processResponseWorkers = 0

\* C33: with no fire worker or no process worker, a Do on N >= 1 requests
\* that is waiting for its results eventually returns and, having returned,
\* sees every goroutine of the call terminated (a return and the terminated
\* state both last, so this is one eventuality); it returns only after the
\* deadline has expired, with every slot RequestIgnored; with no fire worker
\* no transport call is ever started (checked under FairAll).
C33_ZeroWorkersDegrade ==
    /\ (ZeroWorkers /\ doPc = "listen") ~> (Returned /\ AllTerminated)
    /\ []((ZeroWorkers /\ Returned /\ NonEmpty) =>
             DeadlineExpired /\ \A i \in Indices : Ignored(i))
    /\ [](fireRequestsWorkers = 0 => \A i \in 1..MaxRequests : transportCalls[i] = 0)

\* A two-request Do with a fire worker and no process worker has returned
\* and every goroutine has terminated after a transport call was made.
C33_Witness ==
    /\ Returned
    /\ Len(requests) = 2
    /\ fireRequestsWorkers >= 1
    /\ processResponseWorkers = 0
    /\ transportCalls[1] = 1
    /\ \A i \in Indices : Ignored(i)
    /\ AllTerminated

\* responseMux leaves its collecting loop by one of its break LOOP cases,
\* with fewer results than requests.
MuxBreaksEarly == muxPc = "collecting" /\ muxPc' = "send" /\ done' < Len(requests)

\* C34: while stopProcessing is open, processedResponses is closed only once
\* responseMux has received all N results; responseMux is never in its
\* collecting loop with processedResponses closed, so that whenever it leaves
\* the loop with fewer than N results the deadline has expired and the
\* channel is open; and a slice of fewer than N results is delivered only
\* when the deadline has expired.
C34_ClosedOnlyAfterAllCollected ==
    /\ [][(closes'["processedResponses"] # closes["processedResponses"] /\ ~StopProcessing) =>
              done = Len(requests) /\ Len(arrayOfResponses) = Len(requests)]_vars
    /\ []((IsClosed("processedResponses") /\ ~StopProcessing) => done = Len(requests))
    /\ [](muxPc = "collecting" => ~IsClosed("processedResponses"))
    /\ [][MuxBreaksEarly => DeadlineExpired /\ ~IsClosed("processedResponses")]_vars
    /\ []((delivered = 1 /\ Len(arrayOfResponses) < Len(requests)) => DeadlineExpired)

\* workerManager has closed processedResponses behind a process worker
\* before Do closed stopProcessing, after both results were received.
C34_Witness ==
    /\ IsClosed("processedResponses")
    /\ ~StopProcessing
    /\ processResponseWorkers >= 1
    /\ Len(requests) = 2
    /\ Len(arrayOfResponses) = 2

\* Process worker p holds a raw result it has accepted from the fire stage.
Accepted(p) == procPc[p] \in {"parsing", "send"}

\* C35: once stopProcessing is closed (responseMux has delivered by then), a
\* process worker that has accepted a raw result never goes back to accept
\* another, so that it accepts at most one further result before it exits;
\* and at most fireRequestsWorkers + processResponseWorkers transport calls
\* are started after the close, however many requests were unpublished.
C35_BoundedWorkAfterStop ==
    /\ [](StopProcessing => delivered = 1)
    /\ [][StopProcessing =>
              \A p \in ProcessWorkers : Accepted(p) => procPc'[p] # "recv"]_vars
    /\ [](startedAfterStop <= fireRequestsWorkers + processResponseWorkers)

\* With one worker per pool both requests were still unpublished at the stop
\* broadcast, and both transport calls were started after it: the process
\* worker accepted the first result and freed the fire worker for the second.
C35_Witness ==
    /\ fireRequestsWorkers = 1
    /\ processResponseWorkers = 1
    /\ Len(requests) = 2
    /\ startedAfterStop = 2
    /\ \E p \in ProcessWorkers : procPc[p] = "done"

====
